---- MODULE Spec2Model ----
(***************************************************************************)
(* Model of docs/validation/validate_links.py (class LinkValidator).       *)
(*                                                                         *)
(* Documents are TLA+ strings; the five regular expressions of the source  *)
(* are modelled character by character, so extraction, slugification and   *)
(* link stripping are computed the way the re module computes them.        *)
(***************************************************************************)
EXTENDS Integers, Sequences, FiniteSets, TLC

(***************************************************************************)
(* Characters and Python str methods                                       *)
(***************************************************************************)
Ch(s, i) == SubSeq(s, i, i)

UpperChars == {"A","B","C","D","E","F","G","H","I","J","K","L","M",
               "N","O","P","Q","R","S","T","U","V","W","X","Y","Z"}
LowerChars == {"a","b","c","d","e","f","g","h","i","j","k","l","m",
               "n","o","p","q","r","s","t","u","v","w","x","y","z"}
DigitChars == {"0","1","2","3","4","5","6","7","8","9"}
\* \w of the re module (ASCII part)
WordChars == UpperChars \cup LowerChars \cup DigitChars \cup {"_"}
\* \s of the re module on str and the characters str.strip() removes (ASCII
\* part): space, \t, \n, \r, \f, the vertical tab 0x0B and the separators
\* 0x1C, 0x1D, 0x1E, 0x1F, the last five written as the characters themselves
SpaceChars == {" ", "\t", "\n", "\r", "\f", "", "", "", "", ""}

LowerOf == [c \in UpperChars |->
    CASE c = "A" -> "a" [] c = "B" -> "b" [] c = "C" -> "c" [] c = "D" -> "d"
      [] c = "E" -> "e" [] c = "F" -> "f" [] c = "G" -> "g" [] c = "H" -> "h"
      [] c = "I" -> "i" [] c = "J" -> "j" [] c = "K" -> "k" [] c = "L" -> "l"
      [] c = "M" -> "m" [] c = "N" -> "n" [] c = "O" -> "o" [] c = "P" -> "p"
      [] c = "Q" -> "q" [] c = "R" -> "r" [] c = "S" -> "s" [] c = "T" -> "t"
      [] c = "U" -> "u" [] c = "V" -> "v" [] c = "W" -> "w" [] c = "X" -> "x"
      [] c = "Y" -> "y" [] c = "Z" -> "z"]

\* str.lower(), half by half
RECURSIVE StrLower(_)
StrLower(s) ==
    IF Len(s) = 0 THEN ""
    ELSE IF Len(s) = 1 THEN (IF s \in UpperChars THEN LowerOf[s] ELSE s)
    ELSE StrLower(SubSeq(s, 1, Len(s) \div 2))
         \o StrLower(SubSeq(s, Len(s) \div 2 + 1, Len(s)))

\* str.startswith(p)
StartsWith(s, p) == Len(s) >= Len(p) /\ SubSeq(s, 1, Len(p)) = p

\* s[i:].startswith(p) for a 1-based position i
StartsWithAt(s, i, p) ==
    i + Len(p) - 1 <= Len(s) /\ SubSeq(s, i, i + Len(p) - 1) = p

\* p in s
StrContains(s, p) == \E i \in 1..(Len(s) + 1) : StartsWithAt(s, i, p)

\* s.find(c, i - 1) + 1: 1-based; 0 when c does not occur from i on
FindFrom(s, c, i) ==
    LET j == CHOOSE j \in i..(Len(s) + 1) :
                (j > Len(s) \/ Ch(s, j) = c) /\ \A k \in i..(j - 1) : Ch(s, k) # c
    IN  IF j > Len(s) THEN 0 ELSE j

\* the universal newlines of a file opened in text mode, from position p on:
\* "\r\n" and a "\r" alone are read as "\n"
RECURSIVE TranslateNewlines(_, _)
TranslateNewlines(s, p) ==
    LET q == FindFrom(s, "\r", p)
    IN  IF q = 0 THEN SubSeq(s, p, Len(s))
        ELSE SubSeq(s, p, q - 1) \o "\n"
             \o TranslateNewlines(s, IF q < Len(s) /\ Ch(s, q + 1) = "\n"
                                     THEN q + 2 ELSE q + 1)

\* file_path.read_text(encoding='utf-8') of a file holding data
read_text(data) == TranslateNewlines(data, 1)

\* sep.join(xs)
RECURSIVE StrJoin(_, _)
StrJoin(sep, xs) ==
    IF Len(xs) = 0 THEN ""
    ELSE IF Len(xs) = 1 THEN xs[1]
    ELSE xs[1] \o sep \o StrJoin(sep, Tail(xs))

\* end (exclusive) of the maximal run of characters of class cls from i
RunEnd(s, i, cls) ==
    IF i > Len(s) THEN i
    ELSE CHOOSE j \in i..(Len(s) + 1) :
                (j > Len(s) \/ Ch(s, j) \notin cls) /\ \A k \in i..(j - 1) : Ch(s, k) \in cls

\* end (exclusive) of the maximal run of characters other than c from i
RunEndNot(s, i, stop) ==
    IF i > Len(s) THEN i
    ELSE CHOOSE j \in i..(Len(s) + 1) :
                (j > Len(s) \/ Ch(s, j) \in stop) /\ \A k \in i..(j - 1) : Ch(s, k) \notin stop

\* max(S)
Max(S) == CHOOSE x \in S : \A y \in S : y <= x

(***************************************************************************)
(* The regular expressions of the source, as leftmost non-overlapping      *)
(* scans (re.finditer / re.sub).  A Try* operator is one match attempt at  *)
(* position p: [ok, ...groups, end], end being the first position after    *)
(* the match.                                                              *)
(***************************************************************************)

\* r'^#+\s+(.+)$' with re.MULTILINE, attempted at p.  \s+ is greedy and may
\* run over line ends; it gives characters back until (.+) can start on a
\* character other than a newline.
TryHeader(s, p) ==
    LET atLineStart == p = 1 \/ Ch(s, p - 1) = "\n"
        h == RunEnd(s, p, {"#"})
        w == RunEnd(s, h, SpaceChars)
        starts == {q \in (h + 1)..w : q <= Len(s) /\ Ch(s, q) # "\n"}
    IN  IF atLineStart /\ h > p /\ starts # {}
        THEN LET q == Max(starts)
                 e == RunEndNot(s, q, {"\n"})
             IN  [ok |-> TRUE, group |-> SubSeq(s, q, e - 1), end |-> e]
        ELSE [ok |-> FALSE, group |-> "", end |-> p]

RECURSIVE HeaderMatchesFrom(_, _)
HeaderMatchesFrom(s, p) ==
    LET q == CHOOSE j \in p..(Len(s) + 1) :
                (j > Len(s) \/ TryHeader(s, j).ok) /\ \A k \in p..(j - 1) : ~TryHeader(s, k).ok
    IN  IF q > Len(s) THEN << >>
        ELSE <<TryHeader(s, q).group>> \o HeaderMatchesFrom(s, TryHeader(s, q).end)

\* re.sub(r'[^\w\s-]', '', header), half by half
RECURSIVE StripSpecial(_)
StripSpecial(s) ==
    IF Len(s) = 0 THEN ""
    ELSE IF Len(s) = 1
    THEN (IF s \in WordChars \cup SpaceChars \cup {"-"} THEN s ELSE "")
    ELSE StripSpecial(SubSeq(s, 1, Len(s) \div 2))
         \o StripSpecial(SubSeq(s, Len(s) \div 2 + 1, Len(s)))

\* str.strip()
StrStrip(s) ==
    LET keep == {i \in 1..Len(s) : Ch(s, i) \notin SpaceChars}
    IN  IF keep = {} THEN ""
        ELSE SubSeq(s, CHOOSE i \in keep : \A j \in keep : i <= j, Max(keep))

\* re.sub(r'\s+', '-', s)
RECURSIVE SpacesToHyphen(_, _)
SpacesToHyphen(s, p) ==
    LET q == RunEndNot(s, p, SpaceChars)
    IN  IF q > Len(s) THEN SubSeq(s, p, Len(s))
        ELSE SubSeq(s, p, q - 1) \o "-" \o SpacesToHyphen(s, RunEnd(s, q, SpaceChars))

\* header -> anchor (lowercase, special characters removed, spaces to hyphens)
Slugify(header) == SpacesToHyphen(StrStrip(StripSpecial(StrLower(header))), 1)

\* r'\[([A-Z]+-[A-Z]+-\d+)\]' attempted at p
TryReqId(s, p) ==
    LET a == RunEnd(s, p + 1, UpperChars)
        b == RunEnd(s, a + 1, UpperChars)
        c == RunEnd(s, b + 1, DigitChars)
    IN  IF /\ Ch(s, p) = "["
           /\ a > p + 1 /\ a <= Len(s) /\ Ch(s, a) = "-"
           /\ b > a + 1 /\ b <= Len(s) /\ Ch(s, b) = "-"
           /\ c > b + 1 /\ c <= Len(s) /\ Ch(s, c) = "]"
        THEN [ok |-> TRUE, group |-> SubSeq(s, p + 1, c - 1), end |-> c + 1]
        ELSE [ok |-> FALSE, group |-> "", end |-> p]

RECURSIVE ReqIdMatchesFrom(_, _)
ReqIdMatchesFrom(s, p) ==
    LET q == CHOOSE j \in p..(Len(s) + 1) :
                (j > Len(s) \/ TryReqId(s, j).ok) /\ \A k \in p..(j - 1) : ~TryReqId(s, k).ok
    IN  IF q > Len(s) THEN << >>
        ELSE <<TryReqId(s, q).group>> \o ReqIdMatchesFrom(s, TryReqId(s, q).end)

\* r'\[([^\]]+)\]\(([^)]+)\)' attempted at p
TryLink(s, p) ==
    LET a == RunEndNot(s, p + 1, {"]"})
        b == RunEndNot(s, a + 2, {")"})
    IN  IF /\ Ch(s, p) = "["
           /\ a > p + 1 /\ a + 1 <= Len(s) /\ Ch(s, a) = "]" /\ Ch(s, a + 1) = "("
           /\ b > a + 2 /\ b <= Len(s) /\ Ch(s, b) = ")"
        THEN [ok |-> TRUE, text |-> SubSeq(s, p + 1, a - 1),
              target |-> SubSeq(s, a + 2, b - 1), end |-> b + 1]
        ELSE [ok |-> FALSE, text |-> "", target |-> "", end |-> p]

\* every match of the link pattern, external targets included
RECURSIVE LinkMatchesFrom(_, _)
LinkMatchesFrom(s, p) ==
    LET q == CHOOSE j \in p..(Len(s) + 1) :
                (j > Len(s) \/ TryLink(s, j).ok) /\ \A k \in p..(j - 1) : ~TryLink(s, k).ok
        m == TryLink(s, q)
    IN  IF q > Len(s) THEN << >>
        ELSE <<[link_text |-> m.text, link_target |-> m.target]>>
             \o LinkMatchesFrom(s, m.end)

\* re.sub(r'\[([^\]]+)\]\(([^)]+)\)', r'\1', content)
RECURSIVE SubLinksFrom(_, _)
SubLinksFrom(s, p) ==
    LET q == CHOOSE j \in p..(Len(s) + 1) :
                (j > Len(s) \/ TryLink(s, j).ok) /\ \A k \in p..(j - 1) : ~TryLink(s, k).ok
        m == TryLink(s, q)
    IN  IF q > Len(s) THEN SubSeq(s, p, Len(s))
        ELSE SubSeq(s, p, q - 1) \o m.text \o SubLinksFrom(s, m.end)

\* r'(DBD-[A-Z]+-\d+|SRC-[A-Z]+-\d+)' attempted at p
TryOrphan(s, p) ==
    LET a == RunEnd(s, p + 4, UpperChars)
        b == RunEnd(s, a + 1, DigitChars)
    IN  IF /\ StartsWithAt(s, p, "DBD-") \/ StartsWithAt(s, p, "SRC-")
           /\ a > p + 4 /\ a <= Len(s) /\ Ch(s, a) = "-"
           /\ b > a + 1
        THEN [ok |-> TRUE, group |-> SubSeq(s, p, b - 1), end |-> b]
        ELSE [ok |-> FALSE, group |-> "", end |-> p]

RECURSIVE OrphanMatchesFrom(_, _)
OrphanMatchesFrom(s, p) ==
    LET q == CHOOSE j \in p..(Len(s) + 1) :
                (j > Len(s) \/ TryOrphan(s, j).ok) /\ \A k \in p..(j - 1) : ~TryOrphan(s, k).ok
    IN  IF q > Len(s) THEN << >>
        ELSE <<TryOrphan(s, q).group>> \o OrphanMatchesFrom(s, TryOrphan(s, q).end)

(***************************************************************************)
(* Python float arithmetic (IEEE 754 binary64, round to nearest even).     *)
(* A positive double is [mant, exp]: a 53-bit significand, most            *)
(* significant bit first, and the exponent of its last bit; its value is   *)
(* mant * 2^exp.  Zero is the empty significand.                           *)
(***************************************************************************)
MantBits == 53

Zeros(n) == [i \in 1..n |-> 0]

RECURSIVE Pow2(_)
Pow2(k) == IF k = 0 THEN 1 ELSE 2 * Pow2(k - 1)

\* binary long division, n <= 20 bits at a time: the next n quotient bits of
\* r / t (r < t < 2^11) and the remainder
LongDiv(r, t, n) ==
    LET q == (r * Pow2(n)) \div t
    IN  [qbits |-> [i \in 1..n |-> (q \div Pow2(n - i)) % 2],
         rem |-> (r * Pow2(n)) % t]

\* a + b on bit strings; the carry into position i is generated at some lower
\* position j and propagated by every position between
BitsAdd(a, b) ==
    LET n == IF Len(a) >= Len(b) THEN Len(a) ELSE Len(b)
        x == Zeros(n - Len(a)) \o a
        y == Zeros(n - Len(b)) \o b
        carry(i) == \E j \in (i + 1)..n :
                        /\ x[j] + y[j] = 2
                        /\ \A k \in (i + 1)..(j - 1) : x[k] + y[k] = 1
        c(i) == IF carry(i) THEN 1 ELSE 0
        sum == [i \in 1..n |-> (x[i] + y[i] + c(i)) % 2]
    IN  IF carry(0) THEN <<1>> \o sum ELSE sum

\* round the exact value bits * 2^exp to a double
RoundToDouble(bits, exp) ==
    LET d == Len(bits) - MantBits
        kept == SubSeq(bits, 1, MantBits)
        dropped == SubSeq(bits, MantBits + 1, Len(bits))
        restSet == \E i \in 2..d : dropped[i] = 1
        roundUp == dropped[1] = 1 /\ (restSet \/ kept[MantBits] = 1)
        up == BitsAdd(kept, <<1>>)
    IN  IF d <= 0 THEN [mant |-> bits \o Zeros(-d), exp |-> exp + d]
        ELSE IF ~roundUp THEN [mant |-> kept, exp |-> exp + d]
        ELSE IF Len(up) = MantBits THEN [mant |-> up, exp |-> exp + d]
        ELSE [mant |-> SubSeq(up, 1, MantBits), exp |-> exp + d + 1]

\* smallest k with v * 2^k >= t
RECURSIVE ShiftToReach(_, _)
ShiftToReach(v, t) == IF v >= t THEN 0 ELSE 1 + ShiftToReach(2 * v, t)

\* v / t for ints 0 <= v <= t, 0 < t < 2^11 (true division, correctly rounded)
FloatDiv(v, t) ==
    IF v = 0 THEN [mant |-> << >>, exp |-> 0]
    ELSE LET k == ShiftToReach(v, t)
             q1 == LongDiv(v * Pow2(k) - t, t, 20)
             q2 == LongDiv(q1.rem, t, 20)
             q == LongDiv(q2.rem, t, MantBits - 41)
             bits == <<1>> \o q1.qbits \o q2.qbits \o q.qbits
             up == BitsAdd(bits, <<1>>)
             roundUp == 2 * q.rem > t \/ (2 * q.rem = t /\ bits[MantBits] = 1)
             e == 1 - k - MantBits
         IN  IF ~roundUp THEN [mant |-> bits, exp |-> e]
             ELSE IF Len(up) = MantBits THEN [mant |-> up, exp |-> e]
             ELSE [mant |-> SubSeq(up, 1, MantBits), exp |-> e + 1]

\* x * 100 for a double x (100.0 = 25 * 2^2)
FloatMul100(x) ==
    IF Len(x.mant) = 0 THEN x
    ELSE LET times25 == BitsAdd(BitsAdd(x.mant \o Zeros(4), x.mant \o Zeros(3)), x.mant)
         IN  RoundToDouble(times25, x.exp + 2)

RECURSIVE BitsToInt(_)
BitsToInt(bits) ==
    IF Len(bits) = 0 THEN 0
    ELSE 2 * BitsToInt(SubSeq(bits, 1, Len(bits) - 1)) + bits[Len(bits)]

\* int(x) for a double 0 <= x < 2^30: truncation toward zero
FloatToInt(x) ==
    IF Len(x.mant) = 0 THEN 0
    ELSE IF x.exp >= 0 THEN BitsToInt(x.mant) * Pow2(x.exp)
    ELSE IF Len(x.mant) + x.exp <= 0 THEN 0
    ELSE BitsToInt(SubSeq(x.mant, 1, Len(x.mant) + x.exp))

(***************************************************************************)
(* The corpus                                                              *)
(***************************************************************************)
GovDoc == "GOV002-requirements_enumeration.md"
DbdDoc == "SPEC016-decoder_buffer_design.md"

\* docs_dir.glob("*.md")
CorpusFiles == {GovDoc, DbdDoc}

\* lines a document is made of, two of them ending in "\r\n" and in "\r":
\* a header (a vertical tab after the #, a
\* separator 0x1C between its two words); a requirement ID in brackets; a link
\* to an anchor of DbdDoc and one to an anchor of the document itself; a link
\* whose text is a requirement ID and one with an empty anchor; a link to a
\* missing file, an identifier in prose and an external link; requirement IDs
\* of a prefix with several candidate documents and of an unmapped prefix
Fragments == {
    "#AnIntro!\n",
    "[DBD-A-1]\r\n",
    "[a](SPEC016-decoder_buffer_design.md#an-intro) [d](#DBD-A-1)\n",
    "[DBD-A-1](GOV002-requirements_enumeration.md) [e](SPEC016-decoder_buffer_design.md#)\n",
    "[b](m.md#SPEC017) see SRC-B-2 and [c](http://e.org)\n",
    "[GOV-C-3] [FOO-D-4]\r" }

\* fragments in the whole corpus
MaxFrags == 3

\* changes made to files while a run is in progress (SpecEdit only)
MaxEdits == 1

\* the counts generate_report is applied to in SpecHealth
MaxTotal == 50
MaxInvalid == 3

VARIABLES
    disk,                     \* the file system: file name -> text
    edits,                    \* number of changes made to disk during the run
    all_files,                \* self.all_files
    file_names,               \* self.file_names
    total_links,              \* self.total_links
    valid_links,              \* self.valid_links
    broken_links,             \* self.broken_links
    invalid_requirement_ids,  \* self.invalid_requirement_ids
    orphaned_references,      \* self.orphaned_references
    documents_with_issues,    \* self.documents_with_issues, in insertion order
    critical_issues,          \* self.critical_issues
    warnings,                 \* self.warnings
    requirement_ids,          \* self.requirement_ids
    anchors,                  \* self.anchors
    pc,                       \* position in validate_all
    fi,                       \* index in all_files of the file being processed
    links,                    \* validate_all: links
    li,                       \* index in links of the next link
    req_refs,                 \* validate_all: req_refs
    ri,                       \* index in req_refs of the next reference
    is_valid,                 \* validate_all: is_valid
    error,                    \* validate_all: error
    reads,                    \* every read_text() so far: reader, file, text
    report                    \* what validate_all returned, once it has

vars == <<disk, edits, all_files, file_names, total_links, valid_links,
          broken_links, invalid_requirement_ids, orphaned_references,
          documents_with_issues, critical_issues, warnings, requirement_ids,
          anchors, pc, fi, links, li, req_refs, ri, is_valid, error, reads,
          report>>

results == <<total_links, valid_links, broken_links, invalid_requirement_ids,
             orphaned_references, documents_with_issues, critical_issues,
             warnings>>

Range(f) == {f[x] : x \in DOMAIN f}

(***************************************************************************)
(* LinkValidator: the pure parts                                           *)
(***************************************************************************)

\* extract_anchors_from_file, given the text read
extract_anchors_from_file(content) ==
    LET headers == HeaderMatchesFrom(content, 1)
        ids == ReqIdMatchesFrom(content, 1)
    IN  {Slugify(headers[k]) : k \in DOMAIN headers}
        \cup {StrLower(ids[k]) : k \in DOMAIN ids}
        \cup {ids[k] : k \in DOMAIN ids}

\* extract_requirement_ids_from_file, given the text read
extract_requirement_ids_from_file(content) == Range(ReqIdMatchesFrom(content, 1))

\* link_target.startswith('http://') or link_target.startswith('https://')
IsExternal(link_target) ==
    StartsWith(link_target, "http://") \/ StartsWith(link_target, "https://")

\* extract_links_from_file without the skip of external URLs
extract_links_keeping_external(content) == LinkMatchesFrom(content, 1)

\* extract_links_from_file, given the text read
extract_links_from_file(content) ==
    SelectSeq(LinkMatchesFrom(content, 1), LAMBDA l : ~IsExternal(l.link_target))

\* find_requirement_references, given the text read
find_requirement_references(content) == ReqIdMatchesFrom(content, 1)

\* find_orphaned_references, given the text read
find_orphaned_references(content) == OrphanMatchesFrom(SubLinksFrom(content, 1), 1)

\* '#' in link_target
HasHash(link_target) == FindFrom(link_target, "#", 1) # 0

\* file_part of link_target.split('#', 1)
FilePart(link_target) ==
    IF HasHash(link_target)
    THEN SubSeq(link_target, 1, FindFrom(link_target, "#", 1) - 1)
    ELSE link_target

\* anchor_part of link_target.split('#', 1); "" stands for None as well, the
\* code telling them apart nowhere (if anchor_part:)
AnchorPart(link_target) ==
    IF HasHash(link_target)
    THEN SubSeq(link_target, FindFrom(link_target, "#", 1) + 1, Len(link_target))
    ELSE ""

\* validate_link without the check of the anchor
validate_link_file_only(source_file, link_target) ==
    LET file_part == FilePart(link_target)
        target_file == IF file_part = "" THEN source_file ELSE file_part
    IN  IF target_file \notin file_names
        THEN [is_valid |-> FALSE, error |-> "Target file not found: " \o target_file]
        ELSE [is_valid |-> TRUE, error |-> ""]

\* validate_link(source_file, link_text, link_target): [is_valid, error]
validate_link(source_file, link_target) ==
    LET file_part == FilePart(link_target)
        anchor_part == AnchorPart(link_target)
        target_file == IF file_part = "" THEN source_file ELSE file_part
    IN  IF target_file \notin file_names
        THEN [is_valid |-> FALSE, error |-> "Target file not found: " \o target_file]
        ELSE IF anchor_part # "" /\ target_file \notin DOMAIN anchors
        THEN [is_valid |-> FALSE, error |-> "No anchors cached for " \o target_file]
        ELSE IF anchor_part # "" /\ anchor_part \notin anchors[target_file]
        THEN [is_valid |-> FALSE,
              error |-> "Anchor #" \o anchor_part \o " not found in " \o target_file]
        ELSE [is_valid |-> TRUE, error |-> ""]

\* file_map of validate_requirement_reference; a single file is the list of it
\* (isinstance(expected_files, str))
file_map ==
    [p \in {"REQ", "GOV", "ARCH", "XFD", "FLV", "API", "DBD", "SRC", "VOL", "SSP", "DB"} |->
        CASE p = "REQ" -> <<"REQ001-requirements.md">>
          [] p = "GOV" -> <<"GOV001-document_hierarchy.md",
                            "GOV002-requirements_enumeration.md",
                            "GOV003-filename_convention.md">>
          [] p = "ARCH" -> <<"SPEC001-architecture.md">>
          [] p = "XFD" -> <<"SPEC002-crossfade.md">>
          [] p = "FLV" -> <<"SPEC003-musical_flavor.md">>
          [] p = "API" -> <<"SPEC007-api_design.md">>
          [] p = "DBD" -> <<"SPEC016-decoder_buffer_design.md">>
          [] p = "SRC" -> <<"SPEC017-sample_rate_conversion.md">>
          [] p = "VOL" -> <<"SPEC013-single_stream_playback.md">>
          [] p = "SSP" -> <<"SPEC014-single_stream_design.md">>
          [] p = "DB" -> <<"IMPL001-database_schema.md">>]

\* req_id.split('-')[0]
Prefix(req_id) ==
    IF FindFrom(req_id, "-", 1) = 0 THEN req_id
    ELSE SubSeq(req_id, 1, FindFrom(req_id, "-", 1) - 1)

\* file_map.get(prefix, []), as a list
ExpectedFiles(req_id) ==
    IF Prefix(req_id) \in DOMAIN file_map THEN file_map[Prefix(req_id)] ELSE << >>

\* validate_requirement_reference looking in the first expected file only
validate_requirement_reference_first_file(req_id) ==
    LET expected_files == ExpectedFiles(req_id)
    IN  IF expected_files = << >> THEN [is_valid |-> TRUE, error |-> ""]
        ELSE IF /\ expected_files[1] \in DOMAIN requirement_ids
                /\ req_id \in requirement_ids[expected_files[1]]
        THEN [is_valid |-> TRUE, error |-> ""]
        ELSE [is_valid |-> FALSE,
              error |-> "Requirement ID " \o req_id
                        \o " not found in expected file(s): "
                        \o StrJoin(", ", expected_files)]

\* validate_requirement_reference(req_id): [is_valid, error]
validate_requirement_reference(req_id) ==
    LET expected_files == ExpectedFiles(req_id)
    IN  IF expected_files = << >> THEN [is_valid |-> TRUE, error |-> ""]
        ELSE IF \E k \in DOMAIN expected_files :
                    /\ expected_files[k] \in DOMAIN requirement_ids
                    /\ req_id \in requirement_ids[expected_files[k]]
        THEN [is_valid |-> TRUE, error |-> ""]
        ELSE [is_valid |-> FALSE,
              error |-> "Requirement ID " \o req_id
                        \o " not found in expected file(s): "
                        \o StrJoin(", ", expected_files)]

\* the test of line 217 made on the part before '#' only
IsCriticalFilePart(link_target) ==
    \/ StrContains(FilePart(link_target), "SPEC016")
    \/ StrContains(FilePart(link_target), "SPEC017")

\* 'SPEC016' in link_target or 'SPEC017' in link_target
IsCritical(link_target) ==
    StrContains(link_target, "SPEC016") \/ StrContains(link_target, "SPEC017")

\* self.documents_with_issues[name] = [error], the earlier errors lost
AssignIssue(docs, name, err) ==
    IF \E k \in DOMAIN docs : docs[k].file = name
    THEN [k \in DOMAIN docs |->
            IF docs[k].file = name
            THEN [docs[k] EXCEPT !.errors = <<err>>]
            ELSE docs[k]]
    ELSE Append(docs, [file |-> name, errors |-> <<err>>])

\* self.documents_with_issues[name].append(error) on the defaultdict
AppendIssue(docs, name, err) ==
    IF \E k \in DOMAIN docs : docs[k].file = name
    THEN [k \in DOMAIN docs |->
            IF docs[k].file = name
            THEN [docs[k] EXCEPT !.errors = Append(@, err)]
            ELSE docs[k]]
    ELSE Append(docs, [file |-> name, errors |-> <<err>>])

\* the health score with round() in the place of int()
HealthScoreRounded(total, valid, invalid) ==
    LET q == (100 * valid) \div total
        r == (100 * valid) % total
        base == IF total > 0
                THEN (IF 2 * r > total \/ (2 * r = total /\ q % 2 = 1) THEN q + 1 ELSE q)
                ELSE 100
    IN  IF invalid > 0
        THEN (IF base - invalid * 2 > 0 THEN base - invalid * 2 ELSE 0)
        ELSE base

\* the health score without max(0, ...)
HealthScoreUnclamped(total, valid, invalid) ==
    LET base == IF total > 0
                THEN FloatToInt(FloatMul100(FloatDiv(valid, total)))
                ELSE 100
    IN  base - invalid * 2

\* the health score of generate_report
HealthScore(total, valid, invalid) ==
    LET base == IF total > 0
                THEN FloatToInt(FloatMul100(FloatDiv(valid, total)))
                ELSE 100
    IN  IF invalid > 0
        THEN (IF base - invalid * 2 > 0 THEN base - invalid * 2 ELSE 0)
        ELSE base

\* entries of documents_with_issues kept in the report
TopN == 10

\* sorted(items, key=lambda x: len(x[1]), reverse=True)[:10]; the sort is stable
DocsSorted(docs) ==
    LET rank(k) == 1 + Cardinality({m \in DOMAIN docs :
                        \/ Len(docs[m].errors) > Len(docs[k].errors)
                        \/ Len(docs[m].errors) = Len(docs[k].errors) /\ m < k})
        sorted == [r \in DOMAIN docs |-> docs[CHOOSE k \in DOMAIN docs : rank(k) = r]]
    IN  SubSeq(sorted, 1, IF Len(docs) < TopN THEN Len(docs) ELSE TopN)

(***************************************************************************)
(* LinkValidator.__init__ and the documents on disk                        *)
(***************************************************************************)
Concat(frags) == StrJoin("", frags)

NoReport == << >>

InitValidator ==
    /\ all_files \in {<<GovDoc, DbdDoc>>, <<DbdDoc, GovDoc>>}
    /\ file_names = CorpusFiles
    /\ total_links = 0
    /\ valid_links = 0
    /\ broken_links = << >>
    /\ invalid_requirement_ids = << >>
    /\ orphaned_references = << >>
    /\ documents_with_issues = << >>
    /\ critical_issues = << >>
    /\ warnings = << >>
    /\ requirement_ids = << >>
    /\ anchors = << >>
    /\ pc = "cache_anchors"
    /\ fi = 1
    /\ links = << >>
    /\ li = 1
    /\ req_refs = << >>
    /\ ri = 1
    /\ is_valid = FALSE
    /\ error = ""
    /\ reads = << >>
    /\ report = NoReport
    /\ edits = 0

Init ==
    /\ \E n1 \in 0..MaxFrags : \E n2 \in 0..(MaxFrags - n1) :
       \E s1 \in [1..n1 -> Fragments] : \E s2 \in [1..n2 -> Fragments] :
            disk = (GovDoc :> Concat(s1)) @@ (DbdDoc :> Concat(s2))
    /\ InitValidator

\* file_path.name of the file the loops are at
CurFile == all_files[fi]

\* file_path.read_text(encoding='utf-8')
ReadText(reader, name) ==
    reads' = Append(reads, [reader |-> reader, file |-> name, text |-> read_text(disk[name])])

(***************************************************************************)
(* cache_all_anchors_and_ids                                               *)
(***************************************************************************)
\* self.anchors[file_path.name] = self.extract_anchors_from_file(file_path)
CacheAnchors ==
    /\ pc = "cache_anchors"
    /\ ReadText("extract_anchors_from_file", CurFile)
    /\ anchors' = (CurFile :> extract_anchors_from_file(read_text(disk[CurFile]))) @@ anchors
    /\ pc' = "cache_ids"
    /\ UNCHANGED <<disk, edits, all_files, file_names, results, requirement_ids,
                   fi, links, li, req_refs, ri, is_valid, error, report>>

\* CacheIds with validate_all started after the first file is cached
CacheIdsFirstFileOnly ==
    /\ pc = "cache_ids"
    /\ ReadText("extract_requirement_ids_from_file", CurFile)
    /\ requirement_ids' =
           (CurFile :> extract_requirement_ids_from_file(read_text(disk[CurFile]))) @@ requirement_ids
    /\ fi' = 1 /\ pc' = "extract_links"
    /\ UNCHANGED <<disk, edits, all_files, file_names, results, anchors,
                   links, li, req_refs, ri, is_valid, error, report>>

\* self.requirement_ids[file_path.name] = self.extract_requirement_ids_from_file(file_path)
CacheIds ==
    /\ pc = "cache_ids"
    /\ ReadText("extract_requirement_ids_from_file", CurFile)
    /\ requirement_ids' =
           (CurFile :> extract_requirement_ids_from_file(read_text(disk[CurFile]))) @@ requirement_ids
    /\ IF fi < Len(all_files)
       THEN fi' = fi + 1 /\ pc' = "cache_anchors"
       ELSE fi' = 1 /\ pc' = "extract_links"
    /\ UNCHANGED <<disk, edits, all_files, file_names, results, anchors,
                   links, li, req_refs, ri, is_valid, error, report>>

(***************************************************************************)
(* validate_all: the loop over all_files                                   *)
(***************************************************************************)
\* links = self.extract_links_from_file(file_path)
ExtractLinks ==
    /\ pc = "extract_links"
    /\ ReadText("extract_links_from_file", CurFile)
    /\ links' = extract_links_from_file(read_text(disk[CurFile]))
    /\ li' = 1
    /\ pc' = IF links' # << >> THEN "validate_link" ELSE "find_refs"
    /\ UNCHANGED <<disk, edits, all_files, file_names, results, requirement_ids,
                   anchors, fi, req_refs, ri, is_valid, error, report>>

\* one turn of: for link_text, link_target in links
ValidateLinkStep ==
    /\ pc = "validate_link"
    /\ LET link == links[li]
           v == validate_link(CurFile, link.link_target)
       IN  /\ total_links' = total_links + 1
           /\ is_valid' = v.is_valid
           /\ error' = v.error
           /\ IF v.is_valid
              THEN /\ valid_links' = valid_links + 1
                   /\ UNCHANGED <<broken_links, documents_with_issues, critical_issues>>
              ELSE /\ valid_links' = valid_links
                   /\ broken_links' = Append(broken_links,
                          [file |-> CurFile, link_text |-> link.link_text,
                           link_target |-> link.link_target, error |-> v.error])
                   /\ documents_with_issues' =
                          AppendIssue(documents_with_issues, CurFile, v.error)
                   /\ critical_issues' =
                          IF IsCritical(link.link_target)
                          THEN Append(critical_issues, CurFile \o ": " \o v.error)
                          ELSE critical_issues
    /\ IF li < Len(links)
       THEN li' = li + 1 /\ pc' = "validate_link"
       ELSE li' = li /\ pc' = "find_refs"
    /\ UNCHANGED <<disk, edits, all_files, file_names, invalid_requirement_ids,
                   orphaned_references, warnings, requirement_ids, anchors, fi,
                   links, req_refs, ri, reads, report>>

\* req_refs = self.find_requirement_references(file_path)
FindReqRefs ==
    /\ pc = "find_refs"
    /\ ReadText("find_requirement_references", CurFile)
    /\ req_refs' = find_requirement_references(read_text(disk[CurFile]))
    /\ ri' = 1
    /\ pc' = IF req_refs' # << >> THEN "validate_ref" ELSE "orphans"
    /\ UNCHANGED <<disk, edits, all_files, file_names, results, requirement_ids,
                   anchors, fi, links, li, is_valid, error, report>>

\* one turn of: for req_id in req_refs
ValidateRefStep ==
    /\ pc = "validate_ref"
    /\ LET req_id == req_refs[ri]
           v == validate_requirement_reference(req_id)
       IN  /\ is_valid' = v.is_valid
           /\ error' = v.error
           /\ IF v.is_valid
              THEN UNCHANGED <<invalid_requirement_ids, documents_with_issues>>
              ELSE /\ invalid_requirement_ids' = Append(invalid_requirement_ids,
                          [file |-> CurFile, requirement_id |-> req_id,
                           error |-> v.error])
                   /\ documents_with_issues' =
                          AppendIssue(documents_with_issues, CurFile, v.error)
    /\ IF ri < Len(req_refs)
       THEN ri' = ri + 1 /\ pc' = "validate_ref"
       ELSE ri' = ri /\ pc' = "orphans"
    /\ UNCHANGED <<disk, edits, all_files, file_names, total_links, valid_links,
                   broken_links, orphaned_references, critical_issues, warnings,
                   requirement_ids, anchors, fi, links, li, req_refs, reads, report>>

\* orphaned = self.find_orphaned_references(file_path) and the loop over it
FindOrphans ==
    /\ pc = "orphans"
    /\ ReadText("find_orphaned_references", CurFile)
    /\ LET orphaned == find_orphaned_references(read_text(disk[CurFile]))
       IN  /\ orphaned_references' = orphaned_references \o
                  [k \in DOMAIN orphaned |-> [file |-> CurFile, reference |-> orphaned[k]]]
           /\ warnings' = warnings \o
                  [k \in DOMAIN orphaned |->
                      CurFile \o ": Orphaned reference " \o orphaned[k]
                      \o " (not in markdown link)"]
    /\ IF fi < Len(all_files)
       THEN fi' = fi + 1 /\ pc' = "extract_links"
       ELSE fi' = fi /\ pc' = "report"
    /\ UNCHANGED <<disk, edits, all_files, file_names, total_links, valid_links,
                   broken_links, invalid_requirement_ids, documents_with_issues,
                   critical_issues, requirement_ids, anchors, links, li, req_refs,
                   ri, is_valid, error, report>>

\* return self.generate_report()
GenerateReport ==
    /\ pc = "report"
    /\ report' = <<[
           total_links_checked |-> total_links,
           valid_links |-> valid_links,
           broken_links |-> broken_links,
           invalid_requirement_ids |-> invalid_requirement_ids,
           orphaned_references |-> orphaned_references,
           documents_with_issues |-> DocsSorted(documents_with_issues),
           critical_issues |-> critical_issues,
           warnings |-> warnings,
           health_score |->
               HealthScore(total_links, valid_links, Len(invalid_requirement_ids))]>>
    /\ pc' = "done"
    /\ UNCHANGED <<disk, edits, all_files, file_names, results, requirement_ids,
                   anchors, fi, links, li, req_refs, ri, is_valid, error, reads>>

\* another process rewrites a document while validate_all runs
ModifyFile ==
    /\ pc # "done"
    /\ edits < MaxEdits
    /\ \E name \in CorpusFiles : \E frag \in Fragments \cup {""} :
          /\ disk[name] # frag
          /\ disk' = [disk EXCEPT ![name] = frag]
    /\ edits' = edits + 1
    /\ UNCHANGED <<all_files, file_names, results, requirement_ids, anchors, pc,
                   fi, links, li, req_refs, ri, is_valid, error, reads, report>>

Next ==
    \/ CacheAnchors
    \/ CacheIds
    \/ ExtractLinks
    \/ ValidateLinkStep
    \/ FindReqRefs
    \/ ValidateRefStep
    \/ FindOrphans
    \/ GenerateReport

Spec == Init /\ [][Next]_vars

\* documents of at most one fragment, rewritten by another process during the run
InitEdit ==
    /\ \E f1 \in Fragments \cup {""} : \E f2 \in Fragments \cup {""} :
            disk = (GovDoc :> f1) @@ (DbdDoc :> f2)
    /\ InitValidator

NextEdit == Next \/ ModifyFile

SpecEdit == InitEdit /\ [][NextEdit]_vars

\* the entries of a document holding one broken link and one unresolved
\* requirement reference several times over
BrokenEntry ==
    [file |-> GovDoc, link_text |-> "b", link_target |-> "m.md",
     error |-> "Target file not found: m.md"]
InvalidEntry ==
    [file |-> GovDoc, requirement_id |-> "SRC-B-2",
     error |-> "Requirement ID SRC-B-2 not found in expected file(s): "
               \o "SPEC017-sample_rate_conversion.md"]

\* validate_all at its call of generate_report, for counters of every size up
\* to the bounds
InitHealth ==
    /\ \E t \in 0..MaxTotal : \E v \in 0..t : \E k \in 0..MaxInvalid :
          /\ total_links = t
          /\ valid_links = v
          /\ broken_links = [n \in 1..(t - v) |-> BrokenEntry]
          /\ invalid_requirement_ids = [n \in 1..k |-> InvalidEntry]
          /\ documents_with_issues =
                 IF t - v + k = 0 THEN << >>
                 ELSE <<[file |-> GovDoc,
                         errors |-> [n \in 1..(t - v) |-> BrokenEntry.error]
                                    \o [n \in 1..k |-> InvalidEntry.error]]>>
    /\ disk = [name \in CorpusFiles |-> ""]
    /\ all_files = <<GovDoc, DbdDoc>>
    /\ file_names = CorpusFiles
    /\ orphaned_references = << >>
    /\ critical_issues = << >>
    /\ warnings = << >>
    /\ requirement_ids = [name \in CorpusFiles |-> {}]
    /\ anchors = [name \in CorpusFiles |-> {}]
    /\ pc = "report"
    /\ fi = Len(all_files)
    /\ links = << >>
    /\ li = 1
    /\ req_refs = << >>
    /\ ri = 1
    /\ is_valid = FALSE
    /\ error = ""
    /\ reads = << >>
    /\ report = NoReport
    /\ edits = 0

NextHealth == GenerateReport

SpecHealth == InitHealth /\ [][NextHealth]_vars

(***************************************************************************)
(* Properties                                                              *)
(***************************************************************************)
Last(seq) == seq[Len(seq)]

\* the link being validated and the file it points at
CurTarget == links[li].link_target
CurTargetFile == IF FilePart(CurTarget) = "" THEN CurFile ELSE FilePart(CurTarget)

\* C1 (as stated): a link is valid if and only if its target file is a document
\* of the corpus and, whenever the target has an anchor component (a '#'),
\* that anchor is in the cached anchor set of the target document.
C1_ValidIffFileAndAnchorWhenHash ==
    [][pc = "validate_link" =>
        (is_valid' <=>
            /\ CurTargetFile \in file_names
            /\ HasHash(CurTarget) => AnchorPart(CurTarget) \in anchors[CurTargetFile])]_vars

\* C1 (amended): a link is valid if and only if its target file is a document
\* of the corpus and, whenever the text after '#' is not empty, that anchor is
\* in the cached anchor set of the target document; a target ending in a bare
\* '#' is validated like a target without an anchor.
C1_ValidIffFileAndNonEmptyAnchor ==
    [][pc = "validate_link" =>
        (is_valid' <=>
            /\ CurTargetFile \in file_names
            /\ AnchorPart(CurTarget) # "" =>
                   AnchorPart(CurTarget) \in anchors[CurTargetFile])]_vars

\* C1 witness: one run has judged a link valid through an anchor, one broken for
\* its anchor alone and one broken for its file alone.
C1_Witness ==
    /\ valid_links > 0
    /\ \E k \in DOMAIN broken_links :
          /\ StartsWith(broken_links[k].error, "Anchor #")
          /\ FilePart(broken_links[k].link_target) = DbdDoc
    /\ \E k \in DOMAIN broken_links :
          StartsWith(broken_links[k].error, "Target file not found: ")
    /\ \E k \in DOMAIN reads : reads[k].text =
          "[a](SPEC016-decoder_buffer_design.md#an-intro) [d](#DBD-A-1)\n[DBD-A-1]\n"

\* C2: a reference with an unmapped prefix is valid; one with a mapped prefix is
\* valid if and only if the exact token is in the requirement-ID index of at
\* least one candidate document; an invalid one adds exactly one issue, for the
\* file and token at hand, whose error names every candidate document.
C2_RequirementReference ==
    [][pc = "validate_ref" =>
        LET req_id == req_refs[ri]
            mapped == Prefix(req_id) \in DOMAIN file_map
            cands == IF mapped THEN Range(file_map[Prefix(req_id)]) ELSE {}
            found == \E c \in cands \cap DOMAIN requirement_ids :
                         req_id \in requirement_ids[c]
            n == Len(invalid_requirement_ids)
        IN  /\ is_valid' <=> (~mapped \/ found)
            /\ is_valid' => invalid_requirement_ids' = invalid_requirement_ids
            /\ ~is_valid' =>
                  /\ Len(invalid_requirement_ids') = n + 1
                  /\ SubSeq(invalid_requirement_ids', 1, n) = invalid_requirement_ids
                  /\ Last(invalid_requirement_ids').file = CurFile
                  /\ Last(invalid_requirement_ids').requirement_id = req_id
                  /\ \A c \in cands : StrContains(Last(invalid_requirement_ids').error, c)]_vars

\* C2 witness: a run has met an unmapped prefix, has accepted a token of a
\* prefix with several candidates and has rejected a token of a mapped prefix.
C2_Witness ==
    /\ pc = "done"
    /\ \E k \in DOMAIN reads : reads[k].text = "[GOV-C-3] [FOO-D-4]\n[DBD-A-1]\n"
                               /\ reads[k].file = GovDoc
    /\ Len(invalid_requirement_ids) = 1
    /\ invalid_requirement_ids[1].requirement_id = "DBD-A-1"

\* max(0, x)
AtLeastZero(x) == IF x > 0 THEN x ELSE 0

\* round(100 * v / t), halves to the even integer
Round100(v, t) ==
    LET q == (100 * v) \div t
        r == (100 * v) % t
    IN  IF 2 * r > t \/ (2 * r = t /\ q % 2 = 1) THEN q + 1 ELSE q

RECURSIVE Gcd(_, _)
Gcd(a, b) == IF b = 0 THEN a ELSE Gcd(b, a % b)

IsPowerOfTwo(n) == \E k \in 0..30 : n = Pow2(k)

\* v / t is a binary fraction, so the division of the doubles is exact
IsDyadic(v, t) == IsPowerOfTwo(t \div Gcd(v, t))

TheReport == report[1]

\* C3 (as stated): health_score = max(0, base - 2k) with
\* base = round(100 * valid_links / total_links), or 100 without links.
C3_HealthIsRounded ==
    pc = "done" =>
        TheReport.health_score =
            AtLeastZero((IF total_links > 0 THEN Round100(valid_links, total_links)
                         ELSE 100) - 2 * Len(invalid_requirement_ids))

\* C3 (amended): health_score = max(0, base - 2k) where base is 100 without
\* links and otherwise int(valid_links / total_links * 100), the product of the
\* doubles cut off toward zero: floor(100 * valid_links / total_links) whenever
\* that quotient is not a whole number or valid_links / total_links is a binary
\* fraction, and otherwise that whole number or one less.
C3_HealthIsTruncated ==
    pc = "done" =>
        LET k == Len(invalid_requirement_ids)
            floor == (100 * valid_links) \div total_links
            exact == (100 * valid_links) % total_links # 0
                     \/ IsDyadic(valid_links, total_links)
        IN  IF total_links = 0
            THEN TheReport.health_score = AtLeastZero(100 - 2 * k)
            ELSE \/ TheReport.health_score = AtLeastZero(floor - 2 * k)
                 \/ ~exact /\ TheReport.health_score = AtLeastZero(floor - 1 - 2 * k)

\* C3 witness: 29 of 50 links valid and one invalid requirement ID give 55:
\* the doubles give 57.99999999999999, cut off to 57, less 2.
C3_Witness ==
    /\ pc = "done"
    /\ total_links = 50 /\ valid_links = 29 /\ Len(invalid_requirement_ids) = 1
    /\ TheReport.health_score = 55

\* C4: health_score is an integer from 0 to 100, and neither one more broken
\* link (valid_links unchanged) nor one more invalid requirement ID (link
\* counts unchanged) raises it.
C4_HealthBoundedAndMonotone ==
    pc = "done" =>
        LET k == Len(invalid_requirement_ids)
        IN  /\ TheReport.health_score \in 0..100
            /\ HealthScore(total_links + 1, valid_links, k) <= TheReport.health_score
            /\ HealthScore(total_links, valid_links, k + 1) <= TheReport.health_score

\* C4 witness: a report whose score one more broken link lowers and one more
\* invalid requirement ID lowers.
C4_Witness ==
    /\ pc = "done"
    /\ total_links > 0
    /\ TheReport.health_score > 0
    /\ HealthScore(total_links + 1, valid_links, Len(invalid_requirement_ids))
           < TheReport.health_score
    /\ HealthScore(total_links, valid_links, Len(invalid_requirement_ids) + 1)
           < TheReport.health_score

MapSeq(seq, Op(_)) == [k \in DOMAIN seq |-> Op(seq[k])]

CountOf(seq, Test(_)) == Len(SelectSeq(seq, Test))

\* C5 (as stated): critical_issues holds an entry for exactly the broken links
\* whose target-file component (the part before '#') contains SPEC016 or
\* SPEC017.
C5_CriticalIffFilePart ==
    critical_issues =
        MapSeq(SelectSeq(broken_links,
                   LAMBDA b : \/ StrContains(FilePart(b.link_target), "SPEC016")
                              \/ StrContains(FilePart(b.link_target), "SPEC017")),
               LAMBDA b : b.file \o ": " \o b.error)

\* C5 (amended): critical_issues holds an entry for exactly the broken links
\* whose whole target string, anchor included, contains SPEC016 or SPEC017; a
\* valid link never has one.
C5_CriticalIffTarget ==
    critical_issues =
        MapSeq(SelectSeq(broken_links,
                   LAMBDA b : \/ StrContains(b.link_target, "SPEC016")
                              \/ StrContains(b.link_target, "SPEC017")),
               LAMBDA b : b.file \o ": " \o b.error)

\* C5 witness: a run with a broken link that is critical for its anchor alone,
\* a broken link that is not critical and a valid link to DbdDoc.
C5_Witness ==
    /\ pc = "done"
    /\ \E k \in DOMAIN broken_links :
          /\ broken_links[k].link_target = "m.md#SPEC017"
          /\ (broken_links[k].file \o ": " \o broken_links[k].error)
                 \in Range(critical_issues)
    /\ \E k \in DOMAIN broken_links : broken_links[k].link_target = "#DBD-A-1"
    /\ Len(critical_issues) = 1
    /\ Len(broken_links) = 2
    /\ valid_links = 1

\* the spans [from, to) of the link constructs of a text
RECURSIVE LinkSpansFrom(_, _)
LinkSpansFrom(s, p) ==
    LET q == CHOOSE j \in p..(Len(s) + 1) :
                (j > Len(s) \/ TryLink(s, j).ok) /\ \A k \in p..(j - 1) : ~TryLink(s, k).ok
    IN  IF q > Len(s) THEN << >>
        ELSE <<[from |-> q, to |-> TryLink(s, q).end]>>
             \o LinkSpansFrom(s, TryLink(s, q).end)

\* the occurrences of (DBD|SRC)-[A-Z]+-<digits> in a text that lie in no link
\* construct, in order
RECURSIVE BareOccurrencesFrom(_, _)
BareOccurrencesFrom(s, p) ==
    LET q == CHOOSE j \in p..(Len(s) + 1) :
                (j > Len(s) \/ TryOrphan(s, j).ok) /\ \A k \in p..(j - 1) : ~TryOrphan(s, k).ok
        spans == LinkSpansFrom(s, 1)
        inLink == \E k \in DOMAIN spans : spans[k].from <= q /\ q < spans[k].to
    IN  IF q > Len(s) THEN << >>
        ELSE (IF inLink THEN << >> ELSE <<TryOrphan(s, q).group>>)
             \o BareOccurrencesFrom(s, TryOrphan(s, q).end)

OrphansOf(name) ==
    MapSeq(SelectSeq(orphaned_references, LAMBDA o : o.file = name),
           LAMBDA o : o.reference)

\* C6: the orphaned references reported for a document are exactly the
\* occurrences of (DBD|SRC)-[A-Z]+-<digits> that are not wrapped in a
\* [text](target) link, each once; an identifier that is the text or in the
\* target of a link is not reported.
C6_OrphansAreBareOccurrences ==
    pc = "done" =>
        \A name \in file_names : OrphansOf(name) = BareOccurrencesFrom(read_text(disk[name]), 1)

\* C6: every orphaned reference is a warning and no issue.
C6_Witness ==
    /\ pc = "done"
    /\ Len(warnings) = Len(orphaned_references)
    /\ \E k \in DOMAIN orphaned_references : orphaned_references[k].reference = "SRC-B-2"

BrokenOf(name) == CountOf(broken_links, LAMBDA b : b.file = name)
InvalidOf(name) == CountOf(invalid_requirement_ids, LAMBDA r : r.file = name)
OrphanCountOf(name) == CountOf(orphaned_references, LAMBDA o : o.file = name)

\* C7 (as stated): every document of the report's documents_with_issues is
\* tallied with its broken links, its invalid requirement references and its
\* orphaned references, and so is a document with orphaned references only.
C7_TallyCountsOrphans ==
    pc = "done" =>
        /\ \A k \in DOMAIN TheReport.documents_with_issues :
              LET d == TheReport.documents_with_issues[k]
              IN  Len(d.errors) = BrokenOf(d.file) + InvalidOf(d.file) + OrphanCountOf(d.file)
        /\ \A name \in file_names :
              BrokenOf(name) + InvalidOf(name) + OrphanCountOf(name) > 0 =>
                  \E k \in DOMAIN TheReport.documents_with_issues :
                      TheReport.documents_with_issues[k].file = name

\* C7 (amended): every document of the report's documents_with_issues is
\* tallied with its broken links and its invalid requirement references only;
\* orphaned references are not counted, and a document with orphaned
\* references only is not in documents_with_issues.
C7_TallyCountsErrorsOnly ==
    pc = "done" =>
        /\ \A k \in DOMAIN TheReport.documents_with_issues :
              LET d == TheReport.documents_with_issues[k]
              IN  /\ Len(d.errors) = BrokenOf(d.file) + InvalidOf(d.file)
                  /\ Len(d.errors) > 0
        /\ \A name \in file_names :
              BrokenOf(name) + InvalidOf(name) > 0 =>
                  Cardinality({k \in DOMAIN TheReport.documents_with_issues :
                      TheReport.documents_with_issues[k].file = name}) = 1

\* C7 witness: a document tallied with its broken links but not with its
\* orphaned reference, and a document with an orphaned reference only.
C7_Witness ==
    /\ pc = "done"
    /\ \E k \in DOMAIN TheReport.documents_with_issues :
          LET d == TheReport.documents_with_issues[k]
          IN  /\ BrokenOf(d.file) = 1 /\ OrphanCountOf(d.file) = 1
              /\ Len(d.errors) = 1
    /\ \E name \in file_names :
          /\ OrphanCountOf(name) = 1
          /\ BrokenOf(name) + InvalidOf(name) = 0

\* C8: within one run every read of a document returns the same text, so its
\* indexes, its links, its requirement references and its orphaned references
\* come from one snapshot.
C8_OneSnapshotPerDocument ==
    \A a \in DOMAIN reads : \A b \in DOMAIN reads :
        reads[a].file = reads[b].file => reads[a].text = reads[b].text

\* C8: a run has read a document for its index and for its links.
C8_Witness ==
    \E a \in DOMAIN reads : \E b \in DOMAIN reads :
        /\ reads[a].file = reads[b].file
        /\ reads[a].reader = "extract_anchors_from_file"
        /\ reads[b].reader = "extract_links_from_file"

\* the sum of the values of a function on a finite set
RECURSIVE SumFn(_)
SumFn(f) ==
    IF DOMAIN f = {} THEN 0
    ELSE LET x == CHOOSE y \in DOMAIN f : TRUE
         IN  f[x] + SumFn([y \in DOMAIN f \ {x} |-> f[y]])

SumOver(S, F(_)) == SumFn([x \in S |-> F(x)])

\* the indexes, the findings and the counts of a corpus, document by document
\* and in no order
AllAnchors == [name \in file_names |-> extract_anchors_from_file(read_text(disk[name]))]
AllRequirementIds ==
    [name \in file_names |-> extract_requirement_ids_from_file(read_text(disk[name]))]
LinksOf(name) == extract_links_from_file(read_text(disk[name]))
BrokenIn(name) ==
    {[file |-> name, link_text |-> l.link_text, link_target |-> l.link_target,
      error |-> validate_link(name, l.link_target).error] :
        l \in {x \in Range(LinksOf(name)) : ~validate_link(name, x.link_target).is_valid}}
InvalidIn(name) ==
    {[file |-> name, requirement_id |-> r,
      error |-> validate_requirement_reference(r).error] :
        r \in {x \in Range(find_requirement_references(read_text(disk[name]))) :
                  ~validate_requirement_reference(x).is_valid}}
OrphansIn(name) ==
    {[file |-> name, reference |-> r] : r \in Range(find_orphaned_references(read_text(disk[name])))}
ValidCountIn(name) ==
    CountOf(LinksOf(name), LAMBDA l : validate_link(name, l.link_target).is_valid)
InvalidCountIn(name) ==
    CountOf(find_requirement_references(read_text(disk[name])),
            LAMBDA r : ~validate_requirement_reference(r).is_valid)

ValidationPcs == {"extract_links", "validate_link", "find_refs", "validate_ref", "orphans"}

\* C9: when validate_all takes up its first document, before any link or
\* requirement reference is validated, the indexes are those of all documents;
\* no step from then on changes them; and the broken links, invalid
\* requirement IDs, orphaned references and health score of the report are
\* those of the corpus whatever the order of all_files.
C9_IndexesBuiltFirstThenFrozen ==
    /\ []((pc = "extract_links" /\ fi = 1) =>
            anchors = AllAnchors /\ requirement_ids = AllRequirementIds)
    /\ [][(pc \in ValidationPcs \cup {"report"}) =>
            (anchors' = anchors /\ requirement_ids' = requirement_ids)]_vars
    /\ [](pc = "done" =>
            /\ Range(TheReport.broken_links) = UNION {BrokenIn(name) : name \in file_names}
            /\ Range(TheReport.invalid_requirement_ids) =
                   UNION {InvalidIn(name) : name \in file_names}
            /\ Range(TheReport.orphaned_references) =
                   UNION {OrphansIn(name) : name \in file_names}
            /\ TheReport.health_score =
                   HealthScore(SumOver(file_names, LAMBDA name : Len(LinksOf(name))),
                               SumOver(file_names, ValidCountIn),
                               SumOver(file_names, InvalidCountIn)))

\* C9 witness: a finished run in which the document validated first has a link
\* that is valid by the index of the document validated second.
C9_Witness ==
    /\ pc = "done"
    /\ all_files = <<GovDoc, DbdDoc>>
    /\ disk[GovDoc] = "[a](SPEC016-decoder_buffer_design.md#an-intro) [d](#DBD-A-1)\n"
    /\ TheReport.valid_links = 1
    /\ Len(TheReport.broken_links) = 1
    /\ Len(TheReport.orphaned_references) = 1
    /\ TheReport.health_score = 50

\* matches of the link pattern whose target starts with neither http:// nor
\* https://
NonExternal(content) ==
    CountOf(LinkMatchesFrom(content, 1),
            LAMBDA l : SubSeq(l.link_target, 1, 7) # "http://"
                       /\ SubSeq(l.link_target, 1, 8) # "https://")

\* non-external links of the documents and links that validate_all is past
LinksProcessed ==
    IF pc \in {"cache_anchors", "cache_ids"} THEN 0
    ELSE SumOver(1..(fi - 1), LAMBDA k : NonExternal(read_text(disk[all_files[k]])))
         + (IF pc = "extract_links" THEN 0
            ELSE IF pc = "validate_link" THEN li - 1
            ELSE NonExternal(read_text(disk[CurFile])))

\* C10: after every link processed, and in the report, total_links =
\* valid_links + the number of broken_links, total_links counts exactly the
\* non-external links met so far, and no external link is among the broken.
C10_TotalIsValidPlusBroken ==
    /\ total_links = valid_links + Len(broken_links)
    /\ total_links = LinksProcessed
    /\ \A k \in DOMAIN broken_links :
          /\ SubSeq(broken_links[k].link_target, 1, 7) # "http://"
          /\ SubSeq(broken_links[k].link_target, 1, 8) # "https://"
    /\ pc = "done" =>
          /\ TheReport.total_links_checked = total_links
          /\ TheReport.total_links_checked =
                 TheReport.valid_links + Len(TheReport.broken_links)

\* C10 witness: a finished run over a corpus with an external link, a valid
\* link and a broken link.
C10_Witness ==
    /\ pc = "done"
    /\ \E name \in file_names :
          Len(LinkMatchesFrom(read_text(disk[name]), 1)) > NonExternal(read_text(disk[name]))
    /\ valid_links > 0
    /\ Len(broken_links) > 0
    /\ total_links = 3

====
